---- MODULE Spec2Model ----
(***************************************************************************)
(* Model of hiveplot.HivePlot (src/hiveplot/hiveplot.py): the run of       *)
(* draw() that the constructor starts, over a grouped, ordered node set    *)
(* and an edge list.                                                       *)
(*                                                                         *)
(* Angles are exact integers in units of minor_angle() = 2*pi/(6*G), so    *)
(* minor_angle = 1, major_angle = 6, pi = 3*G and 2*pi = 6*G.  Every       *)
(* comparison the code makes on angles (== 0, ==, > pi, < -pi) is between  *)
(* values that are exact in binary floating point at these group counts    *)
(* (k * (2*pi/G) against pi), so the integer comparison decides as the     *)
(* float comparison does.                                                  *)
(*                                                                         *)
(* Emitted points are kept in polar form (radius, theta): get_cartesian    *)
(* (r*sin, r*cos) is applied by the code to each of them unchanged.        *)
(*                                                                         *)
(* group_colormap is kept as the set of groups it has an entry for: the     *)
(* colour itself is only handed to the renderer.                           *)
(*                                                                         *)
(* Groups are named by their position 0..G-1 in the dictionary's iteration *)
(* order, which is what self.nodes.keys().index(group) returns.  Nodes are *)
(* opaque identifiers: the nodes present are numbered 1..N in group order, *)
(* and 0 is an identifier that is in no group.                             *)
(***************************************************************************)
EXTENDS Integers, Sequences, FiniteSets

MaxGroups == 3   \* "at most 3 groups"
MaxNodes == 3    \* total number of nodes over all groups
MaxEdges == 1    \* length of the edge list (one more under SpecLong)
MaxScale == 2    \* scale ranges over 1..MaxScale

VARIABLES
  nodes,    \* self.nodes: group index -> ordered sequence of node identifiers
  edges,    \* self.edges: sequence of <<u, v>> (the attribute d is never read)
  scale,    \* self.scale
  group_colormap,  \* self.group_colormap: the set of groups that have a colour
  pc,       \* position of draw(): "init", "axes", "edges", "done", "error"
  ei,       \* index of the next edge add_edges() will draw (1-based)
  xlim,     \* the viewport half-width set by ax.set_xlim / set_ylim, -1 before
  axes,     \* axis lines emitted by plot_axis, in order
  markers,  \* node circles emitted by plot_nodes, in order
  paths,    \* edge paths emitted by draw_edge, in order
  err       \* the exception that ended the run, "" when none

vars == <<nodes, edges, scale, group_colormap, pc, ei, xlim, axes, markers, paths, err>>

\* what find_group_membership returns for a node that is in no group
None == -1

\* ------------------------------------------------------------ helpers
RECURSIVE SumLens(_, _)
SumLens(lens, g) == IF g = 0 THEN 0 ELSE lens[g - 1] + SumLens(lens, g - 1)

\* Python's "x in list"
InList(x, l) == \E i \in 1..Len(l) : l[i] = x

\* Python's list.index(x): the 0-based position of the first occurrence
index(l, x) == CHOOSE i \in 0..(Len(l) - 1) :
                 l[i + 1] = x /\ \A j \in 0..(i - 1) : l[j + 1] # x

SetMax(S) == CHOOSE m \in S : \A x \in S : x <= m
SetMin(S) == CHOOSE m \in S : \A x \in S : m <= x

\* ------------------------------------------------------------ __init__
keys == DOMAIN nodes
num_groups == Cardinality(keys)
dot_radius_x4 == scale            \* dot_radius = scale / 4, kept as 4 * dot_radius
internal_radius == scale * scale

\* ------------------------------------------------------------ angles
minor_angle == 1
major_angle == 6
pi == 3 * num_groups

plot_radius_no_internal ==
  SetMax({0} \cup {Len(nodes[g]) * scale : g \in keys})
plot_radius ==
  SetMax({0} \cup {Len(nodes[g]) * scale : g \in keys}) + internal_radius

has_edge_within_group_either(group) ==
  \E k \in 1..Len(edges) :
     InList(edges[k][1], nodes[group]) \/ InList(edges[k][2], nodes[group])
has_edge_within_group(group) ==
  \E k \in 1..Len(edges) :
     InList(edges[k][1], nodes[group]) /\ InList(edges[k][2], nodes[group])

group_theta(group) == group * major_angle

\* self.group_colormap[group] raises KeyError at the first node of a group
\* that has no colour; a group without nodes needs none
plot_nodes_fails(nodelist, group) ==
  Len(nodelist) > 0 /\ group \notin group_colormap

\* the circles plot_nodes adds: none when the colour lookup raises, which it
\* does before the first add_patch
plot_nodes(nodelist, theta, group) ==
  IF plot_nodes_fails(nodelist, group)
  THEN <<>>
  ELSE [i \in 1..Len(nodelist) |->
          [node |-> nodelist[i], group |-> group,
           r |-> internal_radius + (i - 1) * scale, theta |-> theta,
           radius_x4 |-> dot_radius_x4]]

\* rs = np.arange(internal_radius, internal_radius + scale * len(nodelist))
plot_axis(group, nodelist, theta) ==
  [group |-> group, theta |-> theta,
   rs_start |-> internal_radius,
   rs_stop |-> internal_radius + scale * Len(nodelist)]

\* one iteration of the loop of add_axes_and_nodes
group_axes(group) ==
  LET theta == group_theta(group)
      nodelist == nodes[group]
  IN IF has_edge_within_group(group)
     THEN <<plot_axis(group, nodelist, theta - minor_angle),
            plot_axis(group, nodelist, (theta - minor_angle) + 2 * minor_angle)>>
     ELSE <<plot_axis(group, nodelist, theta)>>

group_markers(group) ==
  LET theta == group_theta(group)
      nodelist == nodes[group]
  IN IF has_edge_within_group(group)
     THEN plot_nodes(nodelist, theta - minor_angle, group)
          \o plot_nodes(nodelist, (theta - minor_angle) + 2 * minor_angle, group)
     ELSE plot_nodes(nodelist, theta, group)

\* the iteration in which plot_nodes raises: the first plot_axis call has been
\* made, no circle has been added
group_axes_failed(group) ==
  LET theta == group_theta(group)
      nodelist == nodes[group]
  IN IF has_edge_within_group(group)
     THEN <<plot_axis(group, nodelist, theta - minor_angle)>>
     ELSE <<plot_axis(group, nodelist, theta)>>

\* the groups whose iteration raises, and the first of them in iteration order
failing_groups == {g \in keys : plot_nodes_fails(nodes[g], g)}
first_failing_group == SetMin(failing_groups)

RECURSIVE axes_upto(_)
axes_upto(g) == IF g = 0 THEN <<>> ELSE axes_upto(g - 1) \o group_axes(g - 1)
RECURSIVE markers_upto(_)
markers_upto(g) == IF g = 0 THEN <<>> ELSE markers_upto(g - 1) \o group_markers(g - 1)

\* ------------------------------------------------------------ lookups
find_group_membership(node) ==
  IF \E g \in keys : InList(node, nodes[g])
  THEN SetMin({g \in keys : InList(node, nodes[g])})
  ELSE None

\* self.nodes[None] raises KeyError when the node is in no group
lookup_fails(node) == find_group_membership(node) = None

get_idx_one_based(node) == index(nodes[find_group_membership(node)], node) + 1
get_idx(node) == index(nodes[find_group_membership(node)], node)

node_radius(node) == get_idx(node) * scale + internal_radius

node_theta(node) == group_theta(find_group_membership(node))

\* ------------------------------------------------------------ edges
correct_angles_no_split(start_angle, end_angle) ==
  LET s1 == IF start_angle = 0 /\ end_angle - start_angle > pi
            THEN pi * 2 ELSE start_angle
      e1 == IF end_angle = 0 /\ end_angle - s1 < -pi
            THEN pi * 2 ELSE end_angle
  IN <<s1, e1>>
correct_angles(start_angle, end_angle) ==
  LET s1 == IF start_angle = 0 /\ end_angle - start_angle > pi
            THEN pi * 2 ELSE start_angle
      e1 == IF end_angle = 0 /\ end_angle - s1 < -pi
            THEN pi * 2 ELSE end_angle
  IN IF s1 = e1
     THEN <<s1 - minor_angle, e1 + minor_angle>>
     ELSE <<s1, e1>>

adjust_angles_no_wrap(start_node, start_angle, end_node, end_angle) ==
  LET start_group_idx == find_group_membership(start_node)
      end_group_idx == find_group_membership(end_node)
  IN IF start_group_idx < end_group_idx
     THEN <<start_angle + minor_angle, end_angle - minor_angle>>
     ELSE IF end_group_idx < start_group_idx
          THEN <<start_angle - minor_angle, end_angle + minor_angle>>
          ELSE <<start_angle, end_angle>>
adjust_angles(start_node, start_angle, end_node, end_angle) ==
  LET start_group_idx == find_group_membership(start_node)
      end_group_idx == find_group_membership(end_node)
      a1 == IF start_group_idx < end_group_idx
            THEN <<start_angle + minor_angle, end_angle - minor_angle>>
            ELSE <<start_angle, end_angle>>
      a2 == IF end_group_idx < start_group_idx
            THEN <<a1[1] - minor_angle, a1[2] + minor_angle>>
            ELSE a1
      a3 == IF start_group_idx = 0 /\ end_group_idx = num_groups - 1
            THEN <<a2[1] - minor_angle * 2, a2[2] + minor_angle * 2>>
            ELSE a2
      a4 == IF start_group_idx = num_groups - 1 /\ end_group_idx = 0
            THEN <<a3[1] + minor_angle * 2, a3[2] - minor_angle * 2>>
            ELSE a3
  IN a4

Min2(a, b) == IF a <= b THEN a ELSE b
Max2(a, b) == IF a >= b THEN a ELSE b

\* <<middle1_radius, middle2_radius>> of draw_edge
middle_radii_no_swap(start_radius, end_radius) ==
  <<Min2(start_radius, end_radius), Max2(start_radius, end_radius)>>
middle_radii(start_radius, end_radius) ==
  LET middle1_radius == Min2(start_radius, end_radius)
      middle2_radius == Max2(start_radius, end_radius)
  IN IF start_radius > end_radius
     THEN <<middle2_radius, middle1_radius>>
     ELSE <<middle1_radius, middle2_radius>>

\* np.mean([a, b]); the sum of two final angles is always even in these units
mean(a, b) == (a + b) \div 2

\* the path draw_edge adds, for endpoints that are both in a group
draw_edge(n1, n2) ==
  LET start_radius == node_radius(n1)
      start_theta == node_theta(n1)
      end_radius == node_radius(n2)
      end_theta == node_theta(n2)
      c == correct_angles(start_theta, end_theta)
      a == adjust_angles(n1, c[1], n2, c[2])
      m == middle_radii(start_radius, end_radius)
  IN [u |-> n1, v |-> n2,
      start_radius |-> start_radius, start_theta |-> a[1],
      middle1_radius |-> m[1], middle1_theta |-> mean(a[1], a[2]),
      middle2_radius |-> m[2], middle2_theta |-> mean(a[1], a[2]),
      end_radius |-> end_radius, end_theta |-> a[2]]

\* ------------------------------------------------------------ inputs
GroupLens ==
  UNION { {lens \in [0..(G - 1) -> 0..MaxNodes] : SumLens(lens, G) <= MaxNodes}
          : G \in 0..MaxGroups }

NodeSet(lens) ==
  [g \in DOMAIN lens |-> [i \in 1..lens[g] |-> SumLens(lens, g) + i]]

EdgeLists(N, K) ==
  UNION { [1..k -> (0..N) \X (0..N)] : k \in 0..K }

InitWith(K) ==
  /\ \E lens \in GroupLens :
       /\ nodes = NodeSet(lens)
       /\ edges \in EdgeLists(SumLens(lens, Cardinality(DOMAIN lens)), K)
  /\ scale \in 1..MaxScale
  /\ group_colormap \in SUBSET (DOMAIN nodes)
  /\ pc = "init"
  /\ ei = 1
  /\ xlim = -1
  /\ axes = <<>>
  /\ markers = <<>>
  /\ paths = <<>>
  /\ err = ""

Init == InitWith(MaxEdges)

\* the same construction with edge lists one longer, for what depends on the
\* position of an edge in the list
InitLong == InitWith(MaxEdges + 1)

\* ------------------------------------------------------------ draw()
\* ax.set_xlim / ax.set_ylim
SetLimits ==
  /\ pc = "init"
  /\ xlim' = plot_radius
  /\ pc' = "axes"
  /\ UNCHANGED <<nodes, edges, scale, group_colormap, ei, axes, markers, paths, err>>

\* add_axes_and_nodes(): the whole loop over the groups, every group with
\* nodes having a colour
AddAxesAndNodes ==
  /\ pc = "axes"
  /\ failing_groups = {}
  /\ axes' = axes_upto(num_groups)
  /\ markers' = markers_upto(num_groups)
  /\ pc' = "edges"
  /\ UNCHANGED <<nodes, edges, scale, group_colormap, ei, xlim, paths, err>>

\* add_axes_and_nodes() left by the KeyError of plot_nodes in the first group
\* that has nodes and no colour: the groups before it are drawn, and its
\* first axis; the exception leaves draw() and the constructor
AddAxesAndNodesFail ==
  /\ pc = "axes"
  /\ failing_groups # {}
  /\ axes' = axes_upto(first_failing_group) \o group_axes_failed(first_failing_group)
  /\ markers' = markers_upto(first_failing_group)
  /\ pc' = "error"
  /\ err' = "KeyError"
  /\ UNCHANGED <<nodes, edges, scale, group_colormap, ei, xlim, paths>>

\* one iteration of add_edges() whose endpoints are both found
DrawEdge ==
  /\ pc = "edges"
  /\ ei <= Len(edges)
  /\ ~lookup_fails(edges[ei][1])
  /\ ~lookup_fails(edges[ei][2])
  /\ paths' = Append(paths, draw_edge(edges[ei][1], edges[ei][2]))
  /\ ei' = ei + 1
  /\ UNCHANGED <<nodes, edges, scale, group_colormap, pc, xlim, axes, markers, err>>

\* one iteration of add_edges() in which node_radius() raises: the exception
\* leaves draw() and the constructor
DrawEdgeFail ==
  /\ pc = "edges"
  /\ ei <= Len(edges)
  /\ lookup_fails(edges[ei][1]) \/ lookup_fails(edges[ei][2])
  /\ pc' = "error"
  /\ err' = "KeyError"
  /\ UNCHANGED <<nodes, edges, scale, group_colormap, ei, xlim, axes, markers, paths>>

\* ax.axis('off') after the last edge
AxisOff ==
  /\ pc = "edges"
  /\ ei > Len(edges)
  /\ pc' = "done"
  /\ UNCHANGED <<nodes, edges, scale, group_colormap, ei, xlim, axes, markers, paths, err>>

Next == SetLimits \/ AddAxesAndNodes \/ AddAxesAndNodesFail \/ DrawEdge \/ DrawEdgeFail \/ AxisOff

Spec == Init /\ [][Next]_vars

SpecLong == InitLong /\ [][Next]_vars

\* ------------------------------------------------------------ properties
\* What the properties measure against, read off the inputs alone.
Present(n) == \E g \in keys : InList(n, nodes[g])
GroupOf(n) == CHOOSE g \in keys : InList(n, nodes[g])
RankOf(n) == CHOOSE i \in 0..(Len(nodes[GroupOf(n)]) - 1) : nodes[GroupOf(n)][i + 1] = n
RadiusOf(n) == scale * scale + RankOf(n) * scale
InternalEdge(g) ==
  \E k \in 1..Len(edges) : /\ Present(edges[k][1]) /\ Present(edges[k][2])
                           /\ GroupOf(edges[k][1]) = g /\ GroupOf(edges[k][2]) = g
BadEdge(k) == ~Present(edges[k][1]) \/ ~Present(edges[k][2])
Abs(x) == IF x < 0 THEN -x ELSE x
\* distance around the circle of 6 * num_groups units
CircDist(a, b) ==
  LET d == (a - b) % (6 * num_groups)
  IN IF d <= 6 * num_groups - d THEN d ELSE 6 * num_groups - d
Terminated == pc \in {"done", "error"}

\* C1: in a 2-group layout with no internal edges, every edge from the first
\* group to the second ends up with theta_u = group angle + minor_angle and
\* theta_v = group angle - minor_angle.
C1_ShiftIsNet ==
  \A k \in 1..Len(paths) :
    LET p == paths[k] IN
    (/\ num_groups = 2
     /\ GroupOf(p.u) = 0 /\ GroupOf(p.v) = 1
     /\ ~InternalEdge(0) /\ ~InternalEdge(1))
    => (p.start_theta = 0 + 1 /\ p.end_theta = 6 - 1)

\* C2 as stated: the first control point is at min(ru, rv) and the second at
\* max(ru, rv) for every emitted path.
C2_MinMax ==
  \A k \in 1..Len(paths) :
    LET p == paths[k]
        ru == RadiusOf(p.u)
        rv == RadiusOf(p.v)
    IN /\ p.middle1_radius = (IF ru <= rv THEN ru ELSE rv)
       /\ p.middle2_radius = (IF ru <= rv THEN rv ELSE ru)

\* C2 amended: the first control point is at the start node's radius ru and
\* the second at the end node's radius rv; when ru > rv the swap puts the
\* larger radius first.
C2_StartEnd ==
  \A k \in 1..Len(paths) :
    LET p == paths[k]
        ru == RadiusOf(p.u)
        rv == RadiusOf(p.v)
    IN /\ p.middle1_radius = ru
       /\ p.middle2_radius = rv
       /\ ru > rv => (p.middle1_radius > p.middle2_radius)

C2_Witness ==
  \E k \in 1..Len(paths) : RadiusOf(paths[k].u) > RadiusOf(paths[k].v)

\* C3: for 2 or 3 groups, an edge between the first and the last group (either
\* direction) has final endpoint angles less than pi apart.
C3_ShortArc ==
  \A k \in 1..Len(paths) :
    LET p == paths[k] IN
    (/\ num_groups \in 2..3
     /\ {GroupOf(p.u), GroupOf(p.v)} = {0, num_groups - 1})
    => Abs(p.start_theta - p.end_theta) < 3 * num_groups

\* C4: when some edge has an endpoint in no group, the run ends in an error
\* and nothing has been emitted at that point.  Stated for the layouts whose
\* groups all have a node and a colour, where an emitted axis is a visible
\* line with its markers and the offending edge is the only fault.
C4_NoOutputOnError ==
  (/\ Terminated
   /\ \E k \in 1..Len(edges) : BadEdge(k)
   /\ \A g \in keys : Len(nodes[g]) > 0 /\ g \in group_colormap)
  => (pc = "error" /\ axes = <<>> /\ markers = <<>> /\ paths = <<>>)

\* C5: with zero groups the run always ends in an error, whatever the edge
\* list.
C5_ZeroGroupsError ==
  (Terminated /\ num_groups = 0) => pc = "error"

\* C6: in a completed layout, a group with an internal edge has exactly two
\* axes, at group angle - minor_angle and group angle + minor_angle, and each
\* of its nodes has one marker on each; any other group has exactly one axis
\* at the group angle and one marker per node on it.
AxesAt(g, th) == {k \in 1..Len(axes) : axes[k].group = g /\ axes[k].theta = th}
AxesFor(g) == {k \in 1..Len(axes) : axes[k].group = g}
MarkersAt(n, th) == {k \in 1..Len(markers) : markers[k].node = n /\ markers[k].theta = th}
MarkersFor(n) == {k \in 1..Len(markers) : markers[k].node = n}

C6_AxesPerGroup ==
  pc = "done" =>
    \A g \in keys :
      IF InternalEdge(g)
      THEN /\ Cardinality(AxesFor(g)) = 2
           /\ Cardinality(AxesAt(g, 6 * g - 1)) = 1
           /\ Cardinality(AxesAt(g, 6 * g + 1)) = 1
           /\ \A i \in 1..Len(nodes[g]) :
                /\ Cardinality(MarkersFor(nodes[g][i])) = 2
                /\ Cardinality(MarkersAt(nodes[g][i], 6 * g - 1)) = 1
                /\ Cardinality(MarkersAt(nodes[g][i], 6 * g + 1)) = 1
      ELSE /\ Cardinality(AxesFor(g)) = 1
           /\ Cardinality(AxesAt(g, 6 * g)) = 1
           /\ \A i \in 1..Len(nodes[g]) :
                /\ Cardinality(MarkersFor(nodes[g][i])) = 1
                /\ Cardinality(MarkersAt(nodes[g][i], 6 * g)) = 1

\* a completed layout with a split group of two nodes and an unsplit group
C6_Witness ==
  /\ pc = "done"
  /\ \E g \in keys, h \in keys :
       /\ InternalEdge(g) /\ ~InternalEdge(h)
       /\ Len(nodes[g]) > 1 /\ Len(nodes[h]) > 0

\* C7: an edge whose endpoints are in the same group (a self-loop included)
\* ends up with start angle group angle - minor_angle and end angle
\* group angle + minor_angle, for every number of groups.
C7_SameGroupSplit ==
  \A k \in 1..Len(paths) :
    LET p == paths[k] IN
    GroupOf(p.u) = GroupOf(p.v)
    => /\ p.start_theta = 6 * GroupOf(p.u) - 1
       /\ p.end_theta = 6 * GroupOf(p.u) + 1
       /\ p.end_theta - p.start_theta = 2

\* a self-loop in a one-group layout, where the group is first and last
C7_Witness ==
  /\ num_groups = 1
  /\ \E k \in 1..Len(paths) : paths[k].u = paths[k].v

\* C8: the viewport half-width is max(len * scale) + internal_radius and is at
\* least every node's radius plus the marker radius scale / 4.
C8_MarkersInViewport ==
  pc # "init" =>
    /\ \A g \in keys : xlim >= Len(nodes[g]) * scale + scale * scale
    /\ \A g \in keys : \A i \in 1..Len(nodes[g]) :
         4 * xlim >= 4 * (scale * scale + (i - 1) * scale) + scale
    /\ \A k \in 1..Len(markers) :
         4 * xlim >= 4 * markers[k].r + markers[k].radius_x4

\* a completed layout that drew the outermost node of a longest group
C8_Witness ==
  /\ pc = "done"
  /\ \E k \in 1..Len(markers) :
       /\ markers[k].r > scale * scale
       /\ markers[k].r + scale = xlim

\* C9: a node at rank i of its group has node_radius = scale^2 + i * scale,
\* which is the radius of its markers and of its edge endpoints, and
\* consecutive ranks are scale apart.
C9_NodeRadius ==
  /\ \A g \in keys : \A i \in 1..Len(nodes[g]) :
       /\ node_radius(nodes[g][i]) = scale * scale + (i - 1) * scale
       /\ i > 1 => node_radius(nodes[g][i]) - node_radius(nodes[g][i - 1]) = scale
  /\ \A k \in 1..Len(markers) :
       /\ markers[k].r = RadiusOf(markers[k].node)
       /\ markers[k].r = node_radius(markers[k].node)
  /\ \A k \in 1..Len(paths) :
       /\ paths[k].start_radius = RadiusOf(paths[k].u)
       /\ paths[k].end_radius = RadiusOf(paths[k].v)
       /\ \A j \in 1..Len(markers) :
            /\ markers[j].node = paths[k].u => markers[j].r = paths[k].start_radius
            /\ markers[j].node = paths[k].v => markers[j].r = paths[k].end_radius

\* an emitted edge between ranks 0 and 1 of one group, with markers drawn
C9_Witness ==
  /\ scale > 1
  /\ markers # <<>>
  /\ \E k \in 1..Len(paths) :
       /\ GroupOf(paths[k].u) = GroupOf(paths[k].v)
       /\ RankOf(paths[k].u) = 1 /\ RankOf(paths[k].v) = 0

\* C10: each final endpoint angle is, modulo 2*pi, one of the two split-axis
\* angles of the endpoint's group; for a cross-group edge the two final angles
\* are 2 * minor_angle closer around the circle than the two group angles.
C10_InwardDuplicates ==
  \A k \in 1..Len(paths) :
    LET p == paths[k]
        gu == GroupOf(p.u)
        gv == GroupOf(p.v)
        m == 6 * num_groups
    IN /\ p.start_theta % m \in {(6 * gu - 1) % m, (6 * gu + 1) % m}
       /\ p.end_theta % m \in {(6 * gv - 1) % m, (6 * gv + 1) % m}
       /\ gu # gv =>
            CircDist(p.start_theta, p.end_theta) = CircDist(6 * gu, 6 * gv) - 2

\* an edge across the seam in a 3-group layout, from the last group to the first
C10_Witness ==
  /\ num_groups = 3
  /\ \E k \in 1..Len(paths) : GroupOf(paths[k].u) = 2 /\ GroupOf(paths[k].v) = 0

====
